---------------------------- MODULE Spec2Model ----------------------------
(***************************************************************************)
(* Model of VLib.py: the Book record, the Library catalog store and its    *)
(* JSON backing file.                                                      *)
(*                                                                         *)
(* Python strings are sequences of Unicode code points, so that lower(),   *)
(* the substring test and the JSON string escaping are computed, not       *)
(* assumed.  A value that may be an int or a str (Book.year) is a tagged   *)
(* record.  The backing file is the JSON array written by json.dump: a     *)
(* sequence of objects that map each key to the lexeme written for it.     *)
(***************************************************************************)
EXTENDS Integers, Sequences, FiniteSets, TLC

(* ------------------------------ bounds -------------------------------- *)

\* Add is offered while the catalog holds fewer records than this (Spec).
MaxBooks == 3

\* The same cap for the specification with the richer text inputs.
MaxTextBooks == 2

(* ------------------------- Python str and int -------------------------- *)

\* One character by str.lower(): Latin A-Z and Cyrillic U+0410..U+042F map to
\* the letter 32 code points above, every other character of the inputs used
\* here maps to itself.
LowerChar(c) ==
    IF (c >= 65 /\ c <= 90) \/ (c >= 1040 /\ c <= 1071) THEN c + 32 ELSE c

\* str.lower()
lower(s) == [i \in 1..Len(s) |-> LowerChar(s[i])]

\* Python's  needle in hay  for two str values.
Contains(needle, hay) ==
    \E i \in 0..(Len(hay) - Len(needle)) :
        SubSeq(hay, i + 1, i + Len(needle)) = needle

RECURSIVE Digits(_)
\* The decimal digits of n >= 0.
Digits(n) ==
    IF n < 10 THEN <<48 + n>> ELSE Digits(n \div 10) \o <<48 + (n % 10)>>

\* int.__repr__, which both str(int) and json.dump use.
IntToStr(n) == IF n < 0 THEN <<45>> \o Digits(0 - n) ELSE Digits(n)

RECURSIVE DigitsValue(_)
DigitsValue(s) ==
    IF Len(s) = 0 THEN 0
    ELSE 10 * DigitsValue(SubSeq(s, 1, Len(s) - 1)) + (s[Len(s)] - 48)

\* The int a JSON number lexeme denotes.
StrToInt(s) ==
    IF Len(s) > 0 /\ s[1] = 45 THEN 0 - DigitsValue(Tail(s)) ELSE DigitsValue(s)

\* A Python value that is an int or a str.
PyInt(n) == [type |-> "int", num |-> n, text |-> <<>>]
PyStr(s) == [type |-> "str", num |-> 0, text |-> s]

\* str(value)
str(v) == IF v.type = "int" THEN IntToStr(v.num) ELSE v.text

(* ------------------------------ json ----------------------------------- *)

RECURSIVE Escape(_)
\* The body of a JSON string as json.dump(ensure_ascii=False) writes it: the
\* quote and the backslash get a backslash before them, other characters of
\* the inputs used here are written literally.
Escape(s) ==
    IF Len(s) = 0 THEN <<>>
    ELSE (IF s[1] = 34 \/ s[1] = 92 THEN <<92, s[1]>> ELSE <<s[1]>>)
         \o Escape(Tail(s))

RECURSIVE Unescape(_)
\* The str a JSON string body denotes.
Unescape(t) ==
    IF Len(t) = 0 THEN <<>>
    ELSE IF t[1] = 92 /\ Len(t) >= 2 THEN <<t[2]>> \o Unescape(Tail(Tail(t)))
    ELSE <<t[1]>> \o Unescape(Tail(t))

\* json.dump of a str, of an int, and of a value that is either.
JsonStr(s) == <<34>> \o Escape(s) \o <<34>>
JsonInt(n) == IntToStr(n)
JsonValue(v) == IF v.type = "int" THEN JsonInt(v.num) ELSE JsonStr(v.text)

\* json.load of one lexeme: a lexeme that opens with a quote is a str, any
\* other is a number.
IsStrLexeme(x) == Len(x) >= 2 /\ x[1] = 34
ParseStr(x) == Unescape(SubSeq(x, 2, Len(x) - 1))
ParseInt(x) == StrToInt(x)
ParseValue(x) == IF IsStrLexeme(x) THEN PyStr(ParseStr(x)) ELSE PyInt(ParseInt(x))

(* ------------------------------ Book ----------------------------------- *)

\* "в наличии", the default status, and "выдана".
Available == <<1074, 32, 1085, 1072, 1083, 1080, 1095, 1080, 1080>>
CheckedOut == <<1074, 1099, 1076, 1072, 1085, 1072>>

\* The list change_status tests new_status against.
ValidStatuses == {Available, CheckedOut}

\* Book.__init__
Book(book_id, title, author, year, status) ==
    [id |-> book_id, title |-> title, author |-> author, year |-> year,
     status |-> status]

\* A mutation of to_dict: the year is written as text.
to_dict_year_as_text(book) ==
    [id |-> book.id, title |-> book.title, author |-> book.author,
     year |-> PyStr(str(book.year)), status |-> book.status]

\* Book.to_dict
to_dict(book) ==
    [id |-> book.id, title |-> book.title, author |-> book.author,
     year |-> book.year, status |-> book.status]

\* json.dump([book.to_dict() for book in self.books], ...): the array written.
json_dump(bs) ==
    [i \in 1..Len(bs) |->
        LET d == to_dict(bs[i]) IN
        [id |-> JsonInt(d.id), title |-> JsonStr(d.title),
         author |-> JsonStr(d.author), year |-> JsonValue(d.year),
         status |-> JsonStr(d.status)]]

\* json.load(file) and the list comprehension of load_books.
json_load(data) ==
    [i \in 1..Len(data) |->
        LET book == [id |-> ParseInt(data[i].id),
                     title |-> ParseStr(data[i].title),
                     author |-> ParseStr(data[i].author),
                     year |-> ParseValue(data[i].year),
                     status |-> ParseStr(data[i].status)] IN
        Book(book.id, book.title, book.author, book.year, book.status)]

(* ----------------------------- Library --------------------------------- *)

VARIABLES
    books,       \* Library.books
    fileExists,  \* os.path.exists(self.filename)
    fileData,    \* the JSON array in the file, <<>> while there is no file
    last,        \* the call made last and its arguments
    report,      \* the message that call printed
    results,     \* what that call returned (search) or listed (display)
    saved,       \* whether that call ran save_books
    maxLen       \* history: the largest len(self.books) there has been

vars == <<books, fileExists, fileData, last, report, results, saved, maxLen>>

\* The arguments of a call; those a call does not take keep these values.
NoCall ==
    [op |-> "none", id |-> 0, title |-> <<>>, author |-> <<>>,
     year |-> PyInt(0), status |-> <<>>, query |-> <<>>]

HasId(bs, book_id) == \E i \in 1..Len(bs) : bs[i].id = book_id

\* The position the loop  for book in self.books: if book.id == book_id
\* stops at.
FirstIndex(bs, book_id) ==
    CHOOSE i \in 1..Len(bs) :
        bs[i].id = book_id /\ \A j \in 1..(i - 1) : bs[j].id # book_id

\* list.remove of the object at position i.
RemoveAt(bs, i) == SubSeq(bs, 1, i - 1) \o SubSeq(bs, i + 1, Len(bs))

\* A mutation of the condition: an empty query matches nothing.
Matches_nonempty_query(query, book) ==
    /\ Len(query) > 0
    /\ \/ Contains(lower(query), lower(book.title))
       \/ Contains(lower(query), lower(book.author))
       \/ Contains(lower(query), str(book.year))

\* The condition of the comprehension of search_books.
Matches(query, book) ==
    \/ Contains(lower(query), lower(book.title))
    \/ Contains(lower(query), lower(book.author))
    \/ Contains(lower(query), str(book.year))

\* The list search_books returns.
SearchResults(bs, query) == SelectSeq(bs, LAMBDA book : Matches(query, book))

\* Library.__init__ with no file at self.filename.
Init ==
    /\ books = <<>>
    /\ fileExists = FALSE
    /\ fileData = <<>>
    /\ last = NoCall
    /\ report = "none"
    /\ results = <<>>
    /\ saved = FALSE
    /\ maxLen = 0

\* Library.save_books
save_books(bs) ==
    /\ fileExists' = TRUE
    /\ fileData' = json_dump(bs)
    /\ saved' = TRUE

NoSave == saved' = FALSE /\ UNCHANGED <<fileExists, fileData>>

\* Library.__init__ and load_books: a new store on the same file.
Library_init ==
    /\ books' = IF fileExists THEN json_load(fileData) ELSE <<>>
    /\ last' = [NoCall EXCEPT !.op = "init"]
    /\ report' = "none"
    /\ results' = <<>>
    /\ NoSave

\* A mutation of add_book: the id is one more than the largest id in use.
add_book_max_id(title, author, year) ==
    LET Largest == IF Len(books) = 0 THEN 0
                   ELSE CHOOSE m \in {books[i].id : i \in 1..Len(books)} :
                            \A i \in 1..Len(books) : books[i].id <= m
        new_book == Book(Largest + 1, title, author, year, Available) IN
    /\ books' = Append(books, new_book)
    /\ save_books(books')
    /\ last' = [NoCall EXCEPT !.op = "add", !.title = title,
                              !.author = author, !.year = year]
    /\ report' = "none"
    /\ results' = <<>>

\* A mutation of add_book: a book whose title and author are in the catalog
\* is not added again.
add_book_unique_title(title, author, year) ==
    LET book_id == Len(books) + 1
        new_book == Book(book_id, title, author, year, Available) IN
    /\ IF \E i \in 1..Len(books) :
             books[i].title = title /\ books[i].author = author
       THEN UNCHANGED books /\ NoSave
       ELSE books' = Append(books, new_book) /\ save_books(books')
    /\ last' = [NoCall EXCEPT !.op = "add", !.title = title,
                              !.author = author, !.year = year]
    /\ report' = "none"
    /\ results' = <<>>

\* A mutation of add_book: the id is the length before the append.
add_book_id_is_length(title, author, year) ==
    LET book_id == Len(books)
        new_book == Book(book_id, title, author, year, Available) IN
    /\ books' = Append(books, new_book)
    /\ save_books(books')
    /\ last' = [NoCall EXCEPT !.op = "add", !.title = title,
                              !.author = author, !.year = year]
    /\ report' = "none"
    /\ results' = <<>>

\* A mutation of add_book: the id is computed from the length after the
\* append.
add_book_id_after_append(title, author, year) ==
    LET book_id == Len(books) + 2
        new_book == Book(book_id, title, author, year, Available) IN
    /\ books' = Append(books, new_book)
    /\ save_books(books')
    /\ last' = [NoCall EXCEPT !.op = "add", !.title = title,
                              !.author = author, !.year = year]
    /\ report' = "none"
    /\ results' = <<>>

\* Library.add_book
add_book(title, author, year) ==
    LET book_id == Len(books) + 1
        new_book == Book(book_id, title, author, year, Available) IN
    /\ books' = Append(books, new_book)
    /\ save_books(books')
    /\ last' = [NoCall EXCEPT !.op = "add", !.title = title,
                              !.author = author, !.year = year]
    /\ report' = "none"
    /\ results' = <<>>

\* A mutation of remove_book: the record is removed and the file is not
\* rewritten.
remove_book_no_save(book_id) ==
    /\ last' = [NoCall EXCEPT !.op = "remove", !.id = book_id]
    /\ results' = <<>>
    /\ IF HasId(books, book_id)
       THEN /\ books' = RemoveAt(books, FirstIndex(books, book_id))
            /\ NoSave
            /\ report' = "none"
       ELSE /\ report' = "NotFound"
            /\ UNCHANGED books
            /\ NoSave

\* A mutation of remove_book: save_books runs after the loop too.
remove_book_saves_always(book_id) ==
    /\ last' = [NoCall EXCEPT !.op = "remove", !.id = book_id]
    /\ results' = <<>>
    /\ IF HasId(books, book_id)
       THEN /\ books' = RemoveAt(books, FirstIndex(books, book_id))
            /\ report' = "none"
       ELSE /\ report' = "NotFound"
            /\ UNCHANGED books
    /\ save_books(books')

\* A mutation of remove_book: the last record with the id is removed.
remove_book_last_match(book_id) ==
    /\ last' = [NoCall EXCEPT !.op = "remove", !.id = book_id]
    /\ results' = <<>>
    /\ IF HasId(books, book_id)
       THEN /\ books' = RemoveAt(books,
                                CHOOSE i \in 1..Len(books) :
                                    /\ books[i].id = book_id
                                    /\ \A j \in (i + 1)..Len(books) :
                                          books[j].id # book_id)
            /\ save_books(books')
            /\ report' = "none"
       ELSE /\ report' = "NotFound"
            /\ UNCHANGED books
            /\ NoSave

\* Library.remove_book
remove_book(book_id) ==
    /\ last' = [NoCall EXCEPT !.op = "remove", !.id = book_id]
    /\ results' = <<>>
    /\ IF HasId(books, book_id)
       THEN /\ books' = RemoveAt(books, FirstIndex(books, book_id))
            /\ save_books(books')
            /\ report' = "none"
       ELSE /\ report' = "NotFound"
            /\ UNCHANGED books
            /\ NoSave

\* Library.search_books
search_books(query) ==
    /\ results' = SearchResults(books, query)
    /\ last' = [NoCall EXCEPT !.op = "search", !.query = query]
    /\ report' = "none"
    /\ UNCHANGED books
    /\ NoSave

\* A mutation of display_books: the listing ends with save_books.
display_books_saves ==
    /\ last' = [NoCall EXCEPT !.op = "list"]
    /\ IF Len(books) = 0
       THEN report' = "Empty" /\ results' = <<>>
       ELSE report' = "none" /\ results' = books
    /\ UNCHANGED books
    /\ save_books(books)

\* Library.display_books
display_books ==
    /\ last' = [NoCall EXCEPT !.op = "list"]
    /\ IF Len(books) = 0
       THEN report' = "Empty" /\ results' = <<>>
       ELSE report' = "none" /\ results' = books
    /\ UNCHANGED books
    /\ NoSave

\* A mutation of change_status: new_status is stored without the test.
change_status_unchecked(book_id, new_status) ==
    /\ last' = [NoCall EXCEPT !.op = "status", !.id = book_id,
                              !.status = new_status]
    /\ results' = <<>>
    /\ IF HasId(books, book_id)
       THEN /\ books' = [books EXCEPT
                           ![FirstIndex(books, book_id)].status = new_status]
            /\ save_books(books')
            /\ report' = "none"
       ELSE /\ report' = "NotFound"
            /\ UNCHANGED books
            /\ NoSave

\* A mutation of change_status: new_status is tested before the loop.
change_status_validates_first(book_id, new_status) ==
    /\ last' = [NoCall EXCEPT !.op = "status", !.id = book_id,
                              !.status = new_status]
    /\ results' = <<>>
    /\ IF new_status \notin ValidStatuses
       THEN /\ report' = "InvalidStatus"
            /\ UNCHANGED books
            /\ NoSave
       ELSE IF HasId(books, book_id)
            THEN /\ books' = [books EXCEPT
                                ![FirstIndex(books, book_id)].status = new_status]
                 /\ save_books(books')
                 /\ report' = "none"
            ELSE /\ report' = "NotFound"
                 /\ UNCHANGED books
                 /\ NoSave

\* A mutation of change_status: the loop does not stop at the first match,
\* every record with the id gets the status.
change_status_all_matches(book_id, new_status) ==
    /\ last' = [NoCall EXCEPT !.op = "status", !.id = book_id,
                              !.status = new_status]
    /\ results' = <<>>
    /\ IF HasId(books, book_id)
       THEN IF new_status \in ValidStatuses
            THEN /\ books' = [i \in 1..Len(books) |->
                                IF books[i].id = book_id
                                THEN [books[i] EXCEPT !.status = new_status]
                                ELSE books[i]]
                 /\ save_books(books')
                 /\ report' = "none"
            ELSE /\ report' = "InvalidStatus"
                 /\ UNCHANGED books
                 /\ NoSave
       ELSE /\ report' = "NotFound"
            /\ UNCHANGED books
            /\ NoSave

\* A mutation of change_status: a status equal to the current one is
\* rejected.
change_status_no_repeat(book_id, new_status) ==
    /\ last' = [NoCall EXCEPT !.op = "status", !.id = book_id,
                              !.status = new_status]
    /\ results' = <<>>
    /\ IF HasId(books, book_id)
       THEN IF /\ new_status \in ValidStatuses
               /\ books[FirstIndex(books, book_id)].status # new_status
            THEN /\ books' = [books EXCEPT
                                ![FirstIndex(books, book_id)].status = new_status]
                 /\ save_books(books')
                 /\ report' = "none"
            ELSE /\ report' = "InvalidStatus"
                 /\ UNCHANGED books
                 /\ NoSave
       ELSE /\ report' = "NotFound"
            /\ UNCHANGED books
            /\ NoSave

\* Library.change_status
change_status(book_id, new_status) ==
    /\ last' = [NoCall EXCEPT !.op = "status", !.id = book_id,
                              !.status = new_status]
    /\ results' = <<>>
    /\ IF HasId(books, book_id)
       THEN IF new_status \in ValidStatuses
            THEN /\ books' = [books EXCEPT
                                ![FirstIndex(books, book_id)].status = new_status]
                 /\ save_books(books')
                 /\ report' = "none"
            ELSE /\ report' = "InvalidStatus"
                 /\ UNCHANGED books
                 /\ NoSave
       ELSE /\ report' = "NotFound"
            /\ UNCHANGED books
            /\ NoSave

(* ------------------------------ inputs --------------------------------- *)

Dune == <<68, 117, 110, 101>>
Herbert == <<72, 101, 114, 98, 101, 114, 116>>
\* The two characters  Я"  : a Cyrillic capital and a quote.
YaQuote == <<1071, 34>>
\* "1965" and "9A"
Text1965 == <<49, 57, 54, 53>>
Text9A == <<57, 65>>
\* "lost"
Lost == <<108, 111, 115, 116>>

Titles == {Dune}
Authors == {Herbert}
Years == {PyInt(1965)}

TextTitles == {Dune, YaQuote}
TextYears == {PyInt(1965), PyStr(Text1965), PyStr(Text9A)}

\* "", "DUNE", "65"
Queries == { <<>>, <<68, 85, 78, 69>>, <<54, 53>> }

\* "", "dune", "DUNE", "Dune", "herb", "65", "a", "A", the lower-case ya
TextQueries ==
    { <<>>, <<100, 117, 110, 101>>, <<68, 85, 78, 69>>, Dune,
      <<104, 101, 114, 98>>, <<54, 53>>, <<97>>, <<65>>, <<1103>> }

\* The ids a caller may name: those Add can assign, and 999.
BookIds == (1..MaxBooks) \cup {999}

NewStatuses == {Available, CheckedOut, Lost}

(* ---------------------------- specifications --------------------------- *)

\* The history variable follows the length of the sequence after each call.
Track == maxLen' = IF Len(books') > maxLen THEN Len(books') ELSE maxLen

Add ==
    \E title \in Titles, author \in Authors, year \in Years :
        Len(books) < MaxBooks /\ add_book(title, author, year) /\ Track

Remove == \E book_id \in BookIds : remove_book(book_id) /\ Track

Search == \E query \in Queries : search_books(query) /\ Track

List == display_books /\ Track

SetStatus ==
    \E book_id \in BookIds, new_status \in NewStatuses :
        change_status(book_id, new_status) /\ Track

Load == Library_init /\ Track

Next == Add \/ Remove \/ Search \/ List \/ SetStatus \/ Load

Spec == Init /\ [][Next]_vars

AddText ==
    \E title \in TextTitles, author \in Authors, year \in TextYears :
        Len(books) < MaxTextBooks /\ add_book(title, author, year) /\ Track

SearchText == \E query \in TextQueries : search_books(query) /\ Track

NextText == AddText \/ SearchText \/ List \/ SetStatus \/ Load

SpecText == Init /\ [][NextText]_vars

\* Remove is called only with ids no record has, so it always reports
\* NotFound and no record is ever removed.
RemoveAbsent ==
    \E book_id \in BookIds :
        ~HasId(books, book_id) /\ remove_book(book_id) /\ Track

NextNoRemoval == Add \/ RemoveAbsent \/ Search \/ List \/ SetStatus \/ Load

SpecNoRemoval == Init /\ [][NextNoRemoval]_vars


(* ------------------------------- claims -------------------------------- *)

\* The call made last left memory and the file as they were and did not run
\* save_books.
NoEffect ==
    /\ books' = books
    /\ fileExists' = fileExists
    /\ fileData' = fileData
    /\ saved' = FALSE

\* C1: no two records of the in-memory sequence have the same id.
C1_IdsUnique ==
    \A i, j \in 1..Len(books) : i # j => books[i].id # books[j].id

\* C2: Add appends one record whose id is the length of the sequence just
\* before the call, plus one.
C2_CountBasedId ==
    [][last'.op = "add" =>
          /\ Len(books') = Len(books) + 1
          /\ books'[Len(books')].id = Len(books) + 1]_vars

\* C2 witness: three Adds, Remove(2) and one more Add: the ids are 1, 3, 3.
C2_Witness ==
    /\ last.op = "add"
    /\ Len(books) = 3
    /\ books[1].id = 1 /\ books[2].id = 3 /\ books[3].id = 3

\* C3: every completed mutating call (Add, a Remove that found its id, a
\* SetStatus that found its id and got a valid status) rewrote the file, and
\* whenever the file exists the records read from it are the records in
\* memory, field by field and in the same order.
C3_FileInSync ==
    [][/\ (\/ last'.op = "add"
           \/ (last'.op = "remove" /\ HasId(books, last'.id))
           \/ (last'.op = "status" /\ HasId(books, last'.id)
                                   /\ last'.status \in ValidStatuses))
          => (saved' /\ fileExists')
       /\ fileExists' => json_load(fileData') = books']_vars

\* C3 witness: a Remove that found its id left two records, in the file too.
C3_Witness ==
    /\ last.op = "remove" /\ report = "none" /\ saved
    /\ Len(books) = 2 /\ Len(fileData) = 2

\* C4: Remove of an id no record has reports NotFound, changes nothing in
\* memory and does not rewrite the file.
C4_RemoveAbsentNoOp ==
    [][(last'.op = "remove" /\ ~HasId(books, last'.id)) =>
          (report' = "NotFound" /\ NoEffect)]_vars

\* C4 witness: Remove(999) on a populated catalog reported NotFound.
C4_Witness ==
    /\ last.op = "remove" /\ last.id = 999 /\ report = "NotFound"
    /\ Len(books) >= 1

\* C5: SetStatus of an existing id with a status outside the two values
\* reports InvalidStatus, changes nothing in memory and does not rewrite the
\* file.
C5_InvalidStatusNoOp ==
    [][(/\ last'.op = "status"
        /\ HasId(books, last'.id)
        /\ last'.status \notin ValidStatuses) =>
          (report' = "InvalidStatus" /\ NoEffect)]_vars

\* C5 witness: SetStatus(existing id, "lost") reported InvalidStatus.
C5_Witness ==
    /\ last.op = "status" /\ last.status = Lost /\ report = "InvalidStatus"
    /\ HasId(books, last.id)

\* C6 as stated: an invalid status is reported as InvalidStatus whatever the
\* id is, and NotFound is reported only for a valid status.
C6_StatusCheckedFirst ==
    last.op = "status" =>
        /\ last.status \notin ValidStatuses => report = "InvalidStatus"
        /\ report = "NotFound" => last.status \in ValidStatuses

\* C6 amended: the id is looked up first.  When no record has the id,
\* SetStatus reports NotFound whatever the status is; InvalidStatus is
\* reported exactly when a record has the id and the status is outside the
\* two values; in both cases nothing changes and the file is not rewritten.
C6_IdLookedUpFirst ==
    [][last'.op = "status" =>
          /\ ~HasId(books, last'.id) => report' = "NotFound"
          /\ report' = "InvalidStatus" <=>
                (HasId(books, last'.id) /\ last'.status \notin ValidStatuses)
          /\ report' # "none" => NoEffect]_vars

\* C6 witness: SetStatus(absent id, "lost") on a populated catalog reported
\* NotFound.
C6_Witness ==
    /\ last.op = "status" /\ last.status = Lost /\ report = "NotFound"
    /\ Len(books) >= 1

\* C7: a new store constructed on the file that holds the persisted sequence
\* has the same records: same length, same id, title, author, year (an int
\* stays an int, a str a str) and status, in the same order.
C7_RoundTrip ==
    [][(last'.op = "init" /\ fileExists) =>
          /\ Len(books') = Len(books)
          /\ \A i \in 1..Len(books) : books'[i] = books[i]]_vars

\* C7 witness: a store reloaded with an int year, a str year, a title with a
\* non-ASCII letter and a quote, and both statuses.
C7_Witness ==
    /\ last.op = "init" /\ fileExists /\ Len(books) = 2
    /\ books[1].year = PyInt(1965) /\ books[1].status = CheckedOut
    /\ books[2].year = PyStr(Text1965) /\ books[2].title = YaQuote
    /\ books[2].status = Available

\* The match C8 states: the query is a case-insensitive substring of the
\* title, of the author or of the string form of the year.
CaseInsensitiveMatch(query, book) ==
    \/ Contains(lower(query), lower(book.title))
    \/ Contains(lower(query), lower(book.author))
    \/ Contains(lower(query), lower(str(book.year)))

\* C8: Search returns exactly the records the query matches without regard
\* to case in title, author or the string form of the year, in sequence
\* order.
C8_SearchCaseInsensitive ==
    last.op = "search" =>
        results = SelectSeq(books,
                            LAMBDA book : CaseInsensitiveMatch(last.query, book))

\* C9: Search("") returns the whole in-memory sequence, each record once, in
\* order.
C9_EmptyQueryReturnsAll ==
    (last.op = "search" /\ last.query = <<>>) => results = books

\* C9 witness: Search("") on a catalog of three records, two with one id.
C9_Witness ==
    /\ last.op = "search" /\ last.query = <<>>
    /\ Len(books) = 3 /\ books[2].id = books[3].id

\* C10: Search and List change neither the in-memory sequence nor the file,
\* nor whether the file exists.
C10_ReadOnly ==
    [][last'.op \in {"search", "list"} => NoEffect]_vars

\* C10 witness: List showed a populated catalog.
C10_Witness ==
    /\ last.op = "list" /\ Len(results) >= 2 /\ fileExists

\* C11: a Remove of an id some record has deletes exactly one record, the
\* first in sequence order with that id: the length drops by one, the records
\* before it and after it (a later record with the same id too) keep their
\* values and their order, and the result is written to the file.
C11_RemoveFirstMatch ==
    [][(last'.op = "remove" /\ HasId(books, last'.id)) =>
          /\ report' = "none"
          /\ Len(books') = Len(books) - 1
          /\ \E k \in 1..Len(books) :
                /\ books[k].id = last'.id
                /\ \A j \in 1..(k - 1) : books[j].id # last'.id
                /\ \A j \in 1..(k - 1) : books'[j] = books[j]
                /\ \A j \in k..Len(books') : books'[j] = books[j + 1]
          /\ saved' /\ fileExists'
          /\ json_load(fileData') = books']_vars

\* C11 witness: Remove(3) took the first of two records with id 3 and left
\* the later one, which has the other status.
C11_Witness ==
    /\ last.op = "remove" /\ last.id = 3 /\ report = "none"
    /\ Len(books) = 2
    /\ books[1].id = 1
    /\ books[2].id = 3 /\ books[2].status = Available
    /\ maxLen = 3

\* The attributes of a record that no call changes.
Fixed(book) == <<book.id, book.title, book.author, book.year>>

\* C12: in every step the records that stay keep their id, title, author and
\* year and their relative order: the sequence keeps its length and those
\* attributes position by position, or gains one record at the end, or loses
\* one record with the others closing up.  A SetStatus that reports no error
\* sets the status of the first record with the id and changes nothing else;
\* no other call that keeps the length changes anything.
C12_OnlyStatusMutable ==
    [][/\ \/ /\ Len(books') = Len(books)
             /\ \A i \in 1..Len(books) : Fixed(books'[i]) = Fixed(books[i])
          \/ /\ Len(books') = Len(books) + 1
             /\ \A i \in 1..Len(books) : books'[i] = books[i]
          \/ /\ Len(books') = Len(books) - 1
             /\ \E k \in 1..Len(books) :
                   /\ \A j \in 1..(k - 1) : books'[j] = books[j]
                   /\ \A j \in k..Len(books') : books'[j] = books[j + 1]
       /\ (last'.op = "status" /\ report' = "none") =>
             \E k \in 1..Len(books) :
                /\ books[k].id = last'.id
                /\ \A j \in 1..(k - 1) : books[j].id # last'.id
                /\ Len(books') = Len(books)
                /\ books'[k].status = last'.status
                /\ Fixed(books'[k]) = Fixed(books[k])
                /\ \A j \in 1..Len(books) : j # k => books'[j] = books[j]
       /\ (~(last'.op = "status" /\ report' = "none")
             /\ Len(books') = Len(books)) => books' = books]_vars

\* C12 witness: SetStatus changed the first of two records with one id and
\* left the second with the other status.
C12_Witness ==
    /\ last.op = "status" /\ report = "none" /\ last.status = CheckedOut
    /\ Len(books) = 3
    /\ books[2].id = last.id /\ books[3].id = last.id
    /\ books[2].status = CheckedOut /\ books[3].status = Available

\* The number of records before position i that have the id of record i:
\* those a call naming that id meets first.
Shadowing(bs, i) == Cardinality({j \in 1..(i - 1) : bs[j].id = bs[i].id})

\* C13: SetStatus with an id some record has and either of the two values,
\* whatever the current status is (the same value too), reports no error,
\* leaves the record the call addresses (the first with the id) with that
\* status and rewrites the file.  Both values stay reachable for every
\* record: a record that is the first with its id can be given either value
\* by one SetStatus, and a record behind others with its id moves one place
\* closer to that by one Remove that keeps it.
C13_NoTransitionRestrictions ==
    /\ [][(/\ last'.op = "status"
           /\ HasId(books, last'.id)
           /\ last'.status \in ValidStatuses) =>
             /\ report' = "none"
             /\ \E k \in 1..Len(books') :
                   /\ books'[k].id = last'.id
                   /\ \A j \in 1..(k - 1) : books'[j].id # last'.id
                   /\ books'[k].status = last'.status
             /\ saved' /\ fileExists'
             /\ json_load(fileData') = books']_vars
    /\ [](\A i \in 1..Len(books), s \in ValidStatuses :
            IF Shadowing(books, i) = 0
            THEN ENABLED (/\ change_status(books[i].id, s)
                          /\ report' = "none"
                          /\ books'[i].status = s)
            ELSE ENABLED (/\ remove_book(books[i].id)
                          /\ books'[i - 1] = books[i]
                          /\ Shadowing(books', i - 1)
                                = Shadowing(books, i) - 1))

\* C13 witness: SetStatus gave a record the status it already had.
C13_Witness ==
    /\ last.op = "status" /\ report = "none" /\ saved
    /\ last.status = Available
    /\ Len(books) = 2
    /\ books[1].id = last.id /\ books[1].status = Available
    /\ books[2].id = last.id /\ books[2].status = Available

\* C14: Add reports nothing, appends exactly one record at the end with the
\* title, author and year submitted (the year as submitted, int or str) and
\* the status "available", and leaves the records already there as they
\* were; it does so too when the same title, author and year are there
\* already.
C14_AddAppends ==
    [][last'.op = "add" =>
          /\ report' = "none"
          /\ Len(books') = Len(books) + 1
          /\ \A i \in 1..Len(books) : books'[i] = books[i]
          /\ books'[Len(books')].title = last'.title
          /\ books'[Len(books')].author = last'.author
          /\ books'[Len(books')].year = last'.year
          /\ books'[Len(books')].status = Available]_vars

\* C14 witness: the same title, author and year (a str) added twice gave two
\* records.
C14_Witness ==
    /\ last.op = "add" /\ last.year = PyStr(Text1965) /\ last.title = YaQuote
    /\ Len(books) = 2
    /\ Fixed(books[1]) = <<1, YaQuote, Herbert, PyStr(Text1965)>>
    /\ Fixed(books[2]) = <<2, YaQuote, Herbert, PyStr(Text1965)>>

\* C15: every record's status, in memory and as read from the file, is one
\* of the two values, whatever statuses SetStatus was called with.
C15_StatusInEnum ==
    /\ \A i \in 1..Len(books) : books[i].status \in ValidStatuses
    /\ fileExists =>
          \A i \in 1..Len(fileData) :
              ParseStr(fileData[i].status) \in ValidStatuses

\* C15 witness: SetStatus with "lost" was refused on a catalog that holds
\* both statuses.
C15_Witness ==
    /\ last.op = "status" /\ last.status = Lost /\ report = "InvalidStatus"
    /\ fileExists
    /\ \E i, j \in 1..Len(books) :
          books[i].status = Available /\ books[j].status = CheckedOut

\* C16: the record at position i has an id that is at least i and at most
\* the largest length the sequence has had.
C16_IdAtLeastPosition ==
    \A i \in 1..Len(books) : books[i].id >= i /\ books[i].id <= maxLen

\* C16 witness: after removals the only record has id 3, the largest length
\* there has been.
C16_Witness ==
    /\ last.op = "remove" /\ report = "none"
    /\ Len(books) = 1 /\ books[1].id = 3 /\ maxLen = 3

\* C17: while no record has been removed, the record at position i has id i.
C17_IdsArePositions ==
    \A i \in 1..Len(books) : books[i].id = i

\* C17 witness: three records, and a Remove that reported NotFound.
C17_Witness ==
    /\ last.op = "remove" /\ report = "NotFound"
    /\ Len(books) = 3 /\ books[3].status = CheckedOut

=============================================================================
